---- MODULE Spec2Model ----
(***************************************************************************)
(* Feed transformation utilities over a columnar dataframe engine.         *)
(*                                                                         *)
(* Two variants of the same small API are modelled:                        *)
(*   - the class FeedTransformation of src/feedtransformation.py, a        *)
(*     session holding feed and current_metadata;                          *)
(*   - the module functions of                                             *)
(*     src/feedtransformation/src/feedtransformation.py, which take a      *)
(*     dataframe and return a new one.                                     *)
(*                                                                         *)
(* A column name and a string cell are sequences of one-character strings, *)
(* so that strip/lower/replace, Python's substring test and the regex      *)
(* replacement are computed, not assumed.  A dataframe is a sequence of    *)
(* columns [name, dtype, vals]; a cell is a tagged pair.                   *)
(***************************************************************************)
EXTENDS Integers, Sequences, FiniteSets, TLC

VARIABLES feed, current_metadata, calls, last

vars == <<feed, current_metadata, calls, last>>

(***************************************************************************)
(* Bounds of the model.                                                    *)
(***************************************************************************)
MaxRows == 3

MaxCalls == 2

MaxNameLen == 3

(***************************************************************************)
(* Values.                                                                 *)
(***************************************************************************)
None == <<"None">>

Null == <<"null", <<>>>>

Str(s) == <<"str", s>>

Struct(fields) == <<"struct", fields>>

List(items) == <<"list", items>>

Range(s) == {s[i] : i \in DOMAIN s}

NoDup(s) == \A i, j \in DOMAIN s : s[i] = s[j] => i = j

Perms(s) == {p \in [DOMAIN s -> Range(s)] : NoDup(p)}

(***************************************************************************)
(* Python str methods used on column names and cells.                      *)
(***************************************************************************)
Whitespace == {" ", "\t"}

RECURSIVE lstrip(_)
lstrip(s) ==
    IF s # <<>> /\ Head(s) \in Whitespace THEN lstrip(Tail(s)) ELSE s

RECURSIVE rstrip(_)
rstrip(s) ==
    IF s # <<>> /\ s[Len(s)] \in Whitespace
    THEN rstrip(SubSeq(s, 1, Len(s) - 1))
    ELSE s

strip(s) == rstrip(lstrip(s))

lowerChar(c) ==
    CASE c = "A" -> "a"
      [] c = "I" -> "i"
      [] c = "D" -> "d"
      [] c = "M" -> "m"
      [] OTHER -> c

lower(s) == [i \in DOMAIN s |-> lowerChar(s[i])]

\* str.replace(old, new) for one-character old and new
replace(s, old, new) == [i \in DOMAIN s |-> IF s[i] = old THEN new ELSE s[i]]

\* Python's `a in b` for two strings: a occurs in b as a substring
IsSubstring(a, b) ==
    \E i \in 0..(Len(b) - Len(a)) : SubSeq(b, i + 1, i + Len(a)) = a

\* first position where pat occurs in s, 0 when it does not
FindFirst(s, pat) ==
    IF IsSubstring(pat, s)
    THEN 1 + CHOOSE i \in 0..(Len(s) - Len(pat)) :
               /\ SubSeq(s, i + 1, i + Len(pat)) = pat
               /\ \A j \in 0..(i - 1) : SubSeq(s, j + 1, j + Len(pat)) # pat
    ELSE 0

\* Expr.str.replace(pattern, value) on one string, for a pattern without
\* metacharacters: the first match is replaced
ReplaceFirst(s, pat, rep) ==
    LET p == FindFirst(s, pat) IN
    IF p = 0 THEN s
    ELSE SubSeq(s, 1, p - 1) \o rep \o SubSeq(s, p + Len(pat), Len(s))

(***************************************************************************)
(* The dataframe engine, as far as the utilities use it.                   *)
(***************************************************************************)
Column(n, t, v) == [name |-> n, dtype |-> t, vals |-> v]

Columns(df) == [i \in DOMAIN df |-> df[i].name]

Has(df, n) == \E i \in DOMAIN df : df[i].name = n

HasAll(df, names) == \A i \in DOMAIN names : Has(df, names[i])

Col(df, n) == df[CHOOSE i \in DOMAIN df : df[i].name = n]

Height(df) == IF df = <<>> THEN 0 ELSE Len(df[1].vals)

RowIds(df) == [r \in 1..Height(df) |-> r]

\* DataFrame.rename(mapping): mapping is a set of <<old, new>> pairs with
\* distinct olds; every column is renamed at once
Renamed(mapping, n) ==
    IF \E p \in mapping : p[1] = n
    THEN (CHOOSE p \in mapping : p[1] = n)[2]
    ELSE n

\* a variant that applies the renames one after another, so that a swap
\* undoes itself
Rename_OneByOne(df, mapping) ==
    [i \in DOMAIN df |->
        [df[i] EXCEPT !.name = Renamed(mapping, Renamed(mapping, df[i].name))]]

Rename(df, mapping) ==
    [i \in DOMAIN df |-> [df[i] EXCEPT !.name = Renamed(mapping, df[i].name)]]

\* DataFrame.with_columns(expr.alias(n)): replaces column n in place, or appends
WithColumn(df, c) ==
    IF Has(df, c.name)
    THEN [i \in DOMAIN df |-> IF df[i].name = c.name THEN c ELSE df[i]]
    ELSE Append(df, c)

\* DataFrame.drop(n) / select(pl.exclude(n))
Drop(df, n) == SelectSeq(df, LAMBDA c : c.name # n)

\* pl.struct(cols): one record per row, one field per column of cols
StructCells(df, cols) ==
    [r \in 1..Height(df) |->
        Struct([k \in DOMAIN cols |-> <<cols[k], Col(df, cols[k]).vals[r]>>])]

StructColumn(df, cols, n) == Column(n, "struct", StructCells(df, cols))

\* the key of row r under the key columns keys
KeyAt(df, keys, r) == [k \in DOMAIN keys |-> Col(df, keys[k]).vals[r]]

\* the rows of r's group, in row order
RowsOf(df, keys, r) ==
    SelectSeq(RowIds(df), LAMBDA q : KeyAt(df, keys, q) = KeyAt(df, keys, r))

\* the first row of every group, in row order
FirstRows(df, keys) ==
    SelectSeq(RowIds(df),
              LAMBDA r : \A q \in 1..(r - 1) : KeyAt(df, keys, q) # KeyAt(df, keys, r))

\* a variant that aggregates with first(): only the value of the group's
\* first row is kept
GroupList_FirstOnly(df, keys, n, r) ==
    List(<<Col(df, n).vals[RowsOf(df, keys, r)[1]]>>)

\* the list cell group_by(keys).agg(pl.col(n)) builds for r's group
GroupList(df, keys, n, r) ==
    LET rows == RowsOf(df, keys, r) IN
    List([j \in DOMAIN rows |-> Col(df, n).vals[rows[j]]])

\* group_by(keys).agg(pl.col(firsts).first(), pl.col(listed)): one row per
\* group, the groups in the order ord of their first rows
GroupAgg(df, keys, firsts, listed, ord) ==
    [k \in DOMAIN keys |->
        Column(keys[k], Col(df, keys[k]).dtype,
               [g \in DOMAIN ord |-> Col(df, keys[k]).vals[ord[g]]])]
    \o
    [k \in DOMAIN firsts |->
        Column(firsts[k], Col(df, firsts[k]).dtype,
               [g \in DOMAIN ord |-> Col(df, firsts[k]).vals[ord[g]]])]
    \o
    [k \in DOMAIN listed |->
        Column(listed[k], "list",
               [g \in DOMAIN ord |-> GroupList(df, keys, listed[k], ord[g])])]

\* the orders group_by may return the groups in
GroupOrders(df, keys, maintain_order) ==
    IF maintain_order THEN {FirstRows(df, keys)} ELSE Perms(FirstRows(df, keys))

\* whether a column holds nested data
Nested(c) == c.dtype \in {"struct", "list"}

(***************************************************************************)
(* What a call gives back: its status ("ok" or the exception raised), the  *)
(* warnings it emitted, and for a module function the dataframe returned.  *)
(***************************************************************************)
Ok(df, w) == [status |-> "ok", ret |-> df, warnings |-> w]

Raise(e, w) == [status |-> e, ret |-> None, warnings |-> w]

\* group_cols / on_col / over_col: a Python str (kind "str", one name) or a
\* list of names (kind "list")
PyStr(n) == [kind |-> "str", names |-> <<n>>]

PyList(ns) == [kind |-> "list", names |-> ns]

\* Python's `col in group_cols`: a substring test on a str, membership in a list
PyIn(n, arg) ==
    IF arg.kind = "str" THEN IsSubstring(n, arg.names[1]) ELSE n \in Range(arg.names)

\* _validate_existing_columns / the try: df.select(pl.col(cols)) blocks
validate_existing_columns(df, names) == HasAll(df, names)

\* _overwrite_metadata: the warning for a name that is already a column
overwrite_metadata(df, n) == IF Has(df, n) THEN <<"overwrite">> ELSE <<>>

(***************************************************************************)
(* The module functions.                                                   *)
(***************************************************************************)
\* **kwargs is always a dict, so the isinstance test never raises
rename_cols(df, kwargs) ==
    IF \E p \in kwargs.items : ~Has(df, p[1])
    THEN {Raise("SchemaFieldNotFoundError", <<>>)}
    ELSE IF ~NoDup(Columns(Rename(df, kwargs.items))) THEN {Raise("DuplicateError", <<>>)}
    ELSE {Ok(Rename(df, kwargs.items), <<>>)}

\* a variant with the arguments of replace swapped
format_name_Swapped(n) == replace(lower(strip(n)), "_", " ")

format_name(n) == replace(lower(strip(n)), " ", "_")

FormatAll(df) == [i \in DOMAIN df |-> [df[i] EXCEPT !.name = format_name(df[i].name)]]

format_cols(df) ==
    IF ~NoDup(Columns(FormatAll(df))) THEN {Raise("DuplicateError", <<>>)}
    ELSE {Ok(FormatAll(df), <<>>)}

create_metadata(df, cols, meta_name, exclude) ==
    IF ~validate_existing_columns(df, cols) THEN {Raise("ColumnNotFoundError", <<>>)}
    ELSE
      LET w == overwrite_metadata(df, meta_name)
          packed == WithColumn(df, StructColumn(df, cols, meta_name))
      IN  IF exclude # None /\ exclude # <<>>
          THEN {Ok(Drop(packed, exclude), w)}
          ELSE {Ok(packed, w)}

\* pl.col(col).over(over_col, mapping_strategy="join"): every row gets the
\* list of col's values over the rows of its group
OverJoin(df, n, keys) ==
    Column(n, "list", [r \in 1..Height(df) |-> GroupList(df, keys, n, r)])

all_combinations_metadata(df, col, over_col) ==
    IF ~validate_existing_columns(df, <<col>>) THEN {Raise("ColumnNotFoundError", <<>>)}
    ELSE IF ~HasAll(df, over_col.names) THEN {Raise("ColumnNotFoundError", <<>>)}
    ELSE {Ok(WithColumn(df, OverJoin(df, col, over_col.names)), <<>>)}

\* the columns kept by their first value: `col not in group_cols and col != metadata`
FirstCols(df, group_cols, metadata) ==
    SelectSeq(Columns(df), LAMBDA n : ~PyIn(n, group_cols) /\ n # metadata)

group_metadata(df, group_cols, metadata, order) ==
    IF ~HasAll(df, group_cols.names) THEN {Raise("ColumnNotFoundError", <<>>)}
    ELSE IF ~Has(df, metadata) THEN {Raise("ColumnNotFoundError", <<>>)}
    ELSE
      LET keys == group_cols.names
          firsts == FirstCols(df, group_cols, metadata)
      IN  IF ~NoDup(keys \o firsts \o <<metadata>>) THEN {Raise("DuplicateError", <<>>)}
          ELSE {Ok(GroupAgg(df, keys, firsts, <<metadata>>, ord), <<>>) :
                    ord \in GroupOrders(df, keys, order)}

\* a variant that leaves the cells that do not match as they are
WhenThenOtherwise_KeepOthers(c, old, new, ow) ==
    Column(c.name, "str",
           [r \in DOMAIN c.vals |-> IF c.vals[r] = Str(old) THEN Str(new) ELSE c.vals[r]])

\* pl.when(pl.col(col) == old).then(pl.lit(new)).otherwise(pl.lit(ow)): a
\* null cell compares to null, which `when` treats as false
WhenThenOtherwise(c, old, new, ow) ==
    Column(c.name, "str",
           [r \in DOMAIN c.vals |-> IF c.vals[r] = Str(old) THEN Str(new) ELSE Str(ow)])

\* pl.col(col).str.replace(old, new): the first match in every non-null cell
StrReplace(c, old, new) ==
    Column(c.name, "str",
           [r \in DOMAIN c.vals |->
               IF c.vals[r] = Null THEN Null
               ELSE Str(ReplaceFirst(c.vals[r][2], old, new))])

rename_column_value(df, col, old, new, regex, ow) ==
    IF ~validate_existing_columns(df, <<col>>) THEN {Raise("ColumnNotFoundError", <<>>)}
    ELSE
      LET w == IF ow = None THEN <<"ow">> ELSE <<>>
          ow2 == IF ow = None THEN old ELSE ow
      IN  IF Nested(Col(df, col)) THEN {Raise("InvalidOperationError", w)}
          ELSE IF regex THEN {Ok(WithColumn(df, StrReplace(Col(df, col), old, new)), w)}
          ELSE {Ok(WithColumn(df, WhenThenOtherwise(Col(df, col), old, new, ow2)), w)}

\* DataFrame.write_json(path, row_oriented=True): the rows as records
JsonRows(df) ==
    [r \in 1..Height(df) |-> [k \in DOMAIN df |-> <<df[k].name, df[k].vals[r]>>]]

\* DataFrame.write_csv(path): the header and the rows; nested data is refused
CsvRows(df) == <<Columns(df)>> \o [r \in 1..Height(df) |-> [k \in DOMAIN df |-> df[k].vals[r]]]

export_json(df, finalize) ==
    {[status |-> "ok", ret |-> IF finalize THEN None ELSE df, warnings |-> <<>>,
      written |-> JsonRows(df)]}

export_csv(df, finalize) ==
    IF \E i \in DOMAIN df : Nested(df[i])
    THEN {[status |-> "ComputeError", ret |-> None, warnings |-> <<>>, written |-> None]}
    ELSE {[status |-> "ok", ret |-> IF finalize THEN None ELSE df, warnings |-> <<>>,
           written |-> CsvRows(df)]}

(***************************************************************************)
(* The class FeedTransformation.  A method's outcome carries the session   *)
(* it leaves behind (feed, current_metadata), also when it raises: what    *)
(* was assigned before the exception stays assigned.                       *)
(***************************************************************************)
Done(f, cm, w) == [status |-> "ok", feed |-> f, current_metadata |-> cm, warnings |-> w]

Fail(e, f, cm, w) == [status |-> e, feed |-> f, current_metadata |-> cm, warnings |-> w]

\* rename_dict is a dict (its items a set of <<old, new>> pairs) or some other
\* object
FeedTransformation_rename_cols(f, cm, rename_dict) ==
    IF ~rename_dict.isdict THEN {Fail("TypeError", f, cm, <<>>)}
    ELSE IF \E p \in rename_dict.items : ~Has(f, p[1])
         THEN {Fail("SchemaFieldNotFoundError", f, cm, <<>>)}
    ELSE IF ~NoDup(Columns(Rename(f, rename_dict.items)))
         THEN {Fail("DuplicateError", f, cm, <<>>)}
    ELSE {Done(Rename(f, rename_dict.items), cm, <<>>)}

FeedTransformation_format_cols(f, cm) ==
    IF ~NoDup(Columns(FormatAll(f))) THEN {Fail("DuplicateError", f, cm, <<>>)}
    ELSE {Done(FormatAll(f), cm, <<>>)}

\* `if self.current_metadata:` is false for None and for the empty string
DropOldMetadata(cm) == IF cm # None /\ cm # <<>> THEN cm ELSE None

\* the trailing `if drop_old_metadata: self.feed = self.feed.drop(...)`,
\* reached with feed and current_metadata already assigned
DropOld(f, cm, old, w) ==
    IF old = None THEN Done(f, cm, w)
    ELSE IF ~Has(f, old) THEN Fail("ColumnNotFoundError", f, cm, w)
    ELSE Done(Drop(f, old), cm, w)

FeedTransformation_create_metadata(f, cm, cols, meta_name) ==
    IF ~validate_existing_columns(f, cols) THEN {Fail("ColumnNotFoundError", f, cm, <<>>)}
    ELSE
      LET w == overwrite_metadata(f, meta_name)
          old == DropOldMetadata(cm)
          packed == WithColumn(f, StructColumn(f, cols, meta_name))
      IN  {DropOld(packed, meta_name, old, w)}

RightSuffix == <<"_", "r", "i", "g", "h", "t">>

\* feed.join(comb_metadata, on=on_col, how='left') where comb_metadata holds
\* one row per group of on_col with the list of the packed records: the
\* list column is appended, under the suffixed name when the name is taken.
\* A null key matches no row unless the engine joins nulls (its default
\* differs between releases).
JoinLists(f, packed, keys, n, join_nulls) ==
    Append(f,
      Column(IF Has(f, n) THEN n \o RightSuffix ELSE n, "list",
             [r \in 1..Height(f) |->
                 IF ~join_nulls /\ \E k \in DOMAIN keys : KeyAt(f, keys, r)[k] = Null
                 THEN Null
                 ELSE GroupList(packed, keys, n, r)]))

\* on_col is a single column name (a Python str)
FeedTransformation_all_combinations_metadata(f, cm, cols, on_col, meta_name) ==
    IF ~validate_existing_columns(f, cols) THEN {Fail("ColumnNotFoundError", f, cm, <<>>)}
    ELSE
      LET w == overwrite_metadata(f, meta_name)
          old == DropOldMetadata(cm)
          packed == WithColumn(f, StructColumn(f, cols, meta_name))
          keys == on_col.names
      IN  IF ~HasAll(packed, keys) THEN {Fail("ColumnNotFoundError", f, meta_name, w)}
          ELSE IF meta_name \in Range(keys) THEN {Fail("DuplicateError", f, meta_name, w)}
          ELSE {IF NoDup(Columns(JoinLists(f, packed, keys, meta_name, jn)))
                THEN DropOld(JoinLists(f, packed, keys, meta_name, jn), meta_name, old, w)
                ELSE Fail("DuplicateError", f, meta_name, w) : jn \in BOOLEAN}

FeedTransformation_group_metadata(f, cm, group_cols, order) ==
    IF ~HasAll(f, group_cols.names) THEN {Fail("ColumnNotFoundError", f, cm, <<>>)}
    ELSE IF cm = None THEN {Fail("ValueError", f, cm, <<>>)}
    ELSE IF ~Has(f, cm) THEN {Fail("ColumnNotFoundError", f, cm, <<>>)}
    ELSE
      LET keys == group_cols.names
          firsts == FirstCols(f, group_cols, cm)
      IN  IF ~NoDup(keys \o firsts \o <<cm>>) THEN {Fail("DuplicateError", f, cm, <<>>)}
          ELSE {Done(GroupAgg(f, keys, firsts, <<cm>>, ord), cm, <<>>) :
                    ord \in GroupOrders(f, keys, order)}

FeedTransformation_rename_column_value(f, cm, col, old, new, regex, ow) ==
    IF ~Has(f, col) THEN {Fail("ColumnNotFoundError", f, cm, <<>>)}
    ELSE
      LET w == IF ow = None THEN <<"ow">> ELSE <<>>
          ow2 == IF ow = None THEN old ELSE ow
      IN  IF Nested(Col(f, col)) THEN {Fail("InvalidOperationError", f, cm, w)}
          ELSE IF regex
               THEN {Done(WithColumn(f, StrReplace(Col(f, col), old, new)), cm, w)}
          ELSE {Done(WithColumn(f, WhenThenOtherwise(Col(f, col), old, new, ow2)), cm, w)}

FeedTransformation_export_json(f, cm, finalize) ==
    {[status |-> "ok", feed |-> f, current_metadata |-> cm, warnings |-> <<>>,
      written |-> JsonRows(f)]}

FeedTransformation_export_csv(f, cm, finalize) ==
    IF \E i \in DOMAIN f : Nested(f[i])
    THEN {[status |-> "ComputeError", feed |-> f, current_metadata |-> cm,
           warnings |-> <<>>, written |-> None]}
    ELSE {[status |-> "ok", feed |-> f, current_metadata |-> cm, warnings |-> <<>>,
           written |-> CsvRows(f)]}

(***************************************************************************)
(* Inputs.  Column names, cell values and the dataframes a caller passes.  *)
(***************************************************************************)
ID == <<"i", "d">>

D == <<"d">>

PRICE == <<"p", "r", "i", "c", "e">>

METADATA == <<"m", "e", "t", "a", "d", "a", "t", "a">>

M == <<"M">>

K == <<"k">>

MISSING == <<"z", "z">>

Digits == <<"1", "2", "3", "4", "5", "6", "7", "8", "9">>

Keys == {Str(<<"1">>), Str(<<"2">>), Null}

KeyVals == UNION {[1..n -> Keys] : n \in 0..MaxRows}

\* columns id (the keys), d (alternating x, y) and price (10, 20, 30, ..)
Raw(kv) ==
    << Column(ID, "str", kv),
       Column(D, "str", [r \in DOMAIN kv |-> Str(IF r % 2 = 1 THEN <<"x">> ELSE <<"y">>)]),
       Column(PRICE, "str", [r \in DOMAIN kv |-> Str(<<Digits[r], "0">>)]) >>

RawFeeds == {Raw(kv) : kv \in KeyVals}

\* a dataframe that already carries a packed metadata column
Packed(df) == WithColumn(df, StructColumn(df, <<PRICE>>, METADATA))

InputFeeds == RawFeeds \cup {Packed(df) : df \in RawFeeds}

ColsArgs == {<<PRICE>>, <<PRICE, D>>, <<PRICE, MISSING>>}

MetaNames == {METADATA, M, PRICE}

GroupArgs == {PyStr(ID), PyList(<<ID>>), PyList(<<ID, D>>), PyStr(MISSING)}

OverArgs == {PyStr(ID), PyList(<<ID, D>>), PyStr(MISSING)}

OnArgs == {PyStr(ID), PyStr(MISSING)}

Dict(items) == [isdict |-> TRUE, items |-> items]

NotADict == [isdict |-> FALSE, items |-> {}]

\* mappings for a dataframe of two or more columns: one column renamed, the
\* last column renamed, two columns swapped, a name taken twice, a missing key
RenameArgs(df) ==
    { Dict({<<df[1].name, K>>}),
      Dict({<<df[Len(df)].name, K>>}),
      Dict({<<df[1].name, df[2].name>>, <<df[2].name, df[1].name>>}),
      Dict({<<df[1].name, df[2].name>>}),
      Dict({<<MISSING, K>>}) }

ValueCols == {ID, PRICE, METADATA, MISSING}

OldValue == <<"1">>

NewValue == <<"2">>

OwArgs == {None, <<"0">>}

\* names over a small alphabet, for the renaming operations
Alphabet == {" ", "\t", "A", "a", "_"}

NamesUpTo(n) == UNION {[1..k -> Alphabet] : k \in 1..n}

OtherNames == {<<"a">>, <<"A", " ">>, <<"_">>}

NameFeeds ==
    { << Column(n1, "str", <<Str(<<"1">>)>>), Column(n2, "str", <<Null>>) >> :
         n1 \in NamesUpTo(MaxNameLen), n2 \in OtherNames } \ 
    { << Column(n, "str", <<Str(<<"1">>)>>), Column(n, "str", <<Null>>) >> : n \in OtherNames }

(***************************************************************************)
(* The state machine.  feed and current_metadata are the session of the    *)
(* class and, for a module function, feed is the dataframe passed in;      *)
(* last records the last call and what it gave back.                       *)
(***************************************************************************)
NoCall ==
    [variant |-> "none", op |-> "none", args |-> <<>>, status |-> "ok", warnings |-> <<>>,
     feed0 |-> <<>>, cm0 |-> None, ret |-> None, written |-> None]

Written(o) == IF "written" \in DOMAIN o THEN o.written ELSE None

\* a method of the class: the session moves to what the method leaves behind
Method(op, args, outs) ==
    /\ calls < MaxCalls
    /\ \E o \in outs :
        /\ feed' = o.feed
        /\ current_metadata' = o.current_metadata
        /\ calls' = calls + 1
        /\ last' = [variant |-> "class", op |-> op, args |-> args, status |-> o.status,
                    warnings |-> o.warnings, feed0 |-> feed, cm0 |-> current_metadata,
                    ret |-> None, written |-> Written(o)]

\* a module function: the dataframe passed in stays as it is
Function(op, args, outs) ==
    \E o \in outs :
        /\ UNCHANGED <<feed, current_metadata, calls>>
        /\ last' = [variant |-> "function", op |-> op, args |-> args, status |-> o.status,
                    warnings |-> o.warnings, feed0 |-> feed, cm0 |-> current_metadata,
                    ret |-> o.ret, written |-> Written(o)]

Init ==
    /\ feed \in InputFeeds
    /\ current_metadata = None
    /\ calls = 0
    /\ last = NoCall

M_rename_cols ==
    \E d \in RenameArgs(feed) \cup {NotADict} :
        Method("rename_cols", [rename_dict |-> d],
               FeedTransformation_rename_cols(feed, current_metadata, d))

M_format_cols ==
    Method("format_cols", <<>>, FeedTransformation_format_cols(feed, current_metadata))

M_create_metadata ==
    \E cols \in ColsArgs, n \in MetaNames :
        Method("create_metadata", [cols |-> cols, meta_name |-> n],
               FeedTransformation_create_metadata(feed, current_metadata, cols, n))

M_all_combinations_metadata ==
    \E cols \in ColsArgs, on \in OnArgs, n \in MetaNames :
        Method("all_combinations_metadata", [cols |-> cols, on_col |-> on, meta_name |-> n],
               FeedTransformation_all_combinations_metadata(feed, current_metadata, cols, on, n))

M_group_metadata ==
    \E g \in GroupArgs, order \in BOOLEAN :
        Method("group_metadata", [group_cols |-> g, order |-> order],
               FeedTransformation_group_metadata(feed, current_metadata, g, order))

M_rename_column_value ==
    \E c \in ValueCols, regex \in BOOLEAN, ow \in OwArgs :
        Method("rename_column_value",
               [col |-> c, old |-> OldValue, new |-> NewValue, regex |-> regex, ow |-> ow],
               FeedTransformation_rename_column_value(feed, current_metadata, c,
                                                      OldValue, NewValue, regex, ow))

M_export_json ==
    \E fin \in BOOLEAN :
        Method("export_json", [finalize |-> fin],
               FeedTransformation_export_json(feed, current_metadata, fin))

M_export_csv ==
    \E fin \in BOOLEAN :
        Method("export_csv", [finalize |-> fin],
               FeedTransformation_export_csv(feed, current_metadata, fin))

F_rename_cols ==
    \E d \in RenameArgs(feed) :
        Function("rename_cols", [rename_dict |-> d], rename_cols(feed, d))

F_format_cols == Function("format_cols", <<>>, format_cols(feed))

F_create_metadata ==
    \E cols \in ColsArgs, n \in MetaNames, ex \in {None, D} :
        Function("create_metadata", [cols |-> cols, meta_name |-> n, exclude |-> ex],
                 create_metadata(feed, cols, n, ex))

F_all_combinations_metadata ==
    \E c \in {METADATA, MISSING}, over \in OverArgs :
        Function("all_combinations_metadata", [col |-> c, over_col |-> over],
                 all_combinations_metadata(feed, c, over))

F_group_metadata ==
    \E g \in GroupArgs, m \in {METADATA, M}, order \in BOOLEAN :
        Function("group_metadata", [group_cols |-> g, metadata |-> m, order |-> order],
                 group_metadata(feed, g, m, order))

F_rename_column_value ==
    \E c \in ValueCols, regex \in BOOLEAN, ow \in OwArgs :
        Function("rename_column_value",
                 [col |-> c, old |-> OldValue, new |-> NewValue, regex |-> regex, ow |-> ow],
                 rename_column_value(feed, c, OldValue, NewValue, regex, ow))

F_export_json ==
    \E fin \in BOOLEAN : Function("export_json", [finalize |-> fin], export_json(feed, fin))

F_export_csv ==
    \E fin \in BOOLEAN : Function("export_csv", [finalize |-> fin], export_csv(feed, fin))

\* a session of the class: any methods in any order
Next ==
    \/ M_rename_cols
    \/ M_format_cols
    \/ M_create_metadata
    \/ M_all_combinations_metadata
    \/ M_group_metadata
    \/ M_rename_column_value
    \/ M_export_json
    \/ M_export_csv

Spec == Init /\ [][Next]_vars

\* no call has been made yet
First == last.op = "none"

\* the session has just created its metadata column
JustPacked ==
    /\ last.variant = "class"
    /\ last.op \in {"create_metadata", "all_combinations_metadata"}
    /\ last.status = "ok"

\* one call on the dataframe passed in, by a method or by a module function,
\* and the chain create_metadata(..).group_metadata(..) of the class
NextCall ==
    \/ First /\ M_rename_cols
    \/ First /\ M_format_cols
    \/ First /\ M_create_metadata
    \/ First /\ M_all_combinations_metadata
    \/ First /\ M_group_metadata
    \/ First /\ M_rename_column_value
    \/ First /\ M_export_json
    \/ First /\ M_export_csv
    \/ JustPacked /\ M_group_metadata
    \/ First /\ F_rename_cols
    \/ First /\ F_format_cols
    \/ First /\ F_create_metadata
    \/ First /\ F_all_combinations_metadata
    \/ First /\ F_group_metadata
    \/ First /\ F_rename_column_value
    \/ First /\ F_export_json
    \/ First /\ F_export_csv

SpecCall == Init /\ [][NextCall]_vars

\* the renaming operations on dataframes whose column names vary
InitNames ==
    /\ feed \in NameFeeds
    /\ current_metadata = None
    /\ calls = 0
    /\ last = NoCall

NextNames ==
    \/ First /\ M_rename_cols
    \/ First /\ M_format_cols
    \/ First /\ F_rename_cols
    \/ First /\ F_format_cols

SpecNames == InitNames /\ [][NextNames]_vars

(***************************************************************************)
(* The claims.                                                             *)
(***************************************************************************)
\* the dataframe the last call worked on, and the one it produced
Input == last.feed0

Result == IF last.variant = "class" THEN feed ELSE last.ret

Succeeded(op) == last.op = op /\ last.status = "ok"

Min(S) == CHOOSE x \in S : \A y \in S : x <= y

\* the rows of df whose key columns hold key
MatchRows(df, keys, key) == {r \in 1..Height(df) : KeyAt(df, keys, r) = key}

\* the metadata column group_metadata collects, and its key columns
MetaArg == IF last.variant = "class" THEN last.cm0 ELSE last.args.metadata

GroupKeys == last.args.group_cols.names

\* C1: group_metadata returns exactly one row per distinct combination of
\* the group columns' values, and the metadata list of each row holds exactly
\* the metadata values of the input rows with that combination, in row order;
\* with order set the groups come in the order of their first rows.
C1_OneRowPerGroup ==
    Succeeded("group_metadata") =>
      LET lists == Col(Result, MetaArg).vals IN
      /\ Height(Result) =
            Cardinality({KeyAt(Input, GroupKeys, r) : r \in 1..Height(Input)})
      /\ \A r \in 1..Height(Input) :
            \E g \in 1..Height(Result) :
                KeyAt(Result, GroupKeys, g) = KeyAt(Input, GroupKeys, r)
      /\ \A g \in 1..Height(Result) :
            LET rows == MatchRows(Input, GroupKeys, KeyAt(Result, GroupKeys, g)) IN
            /\ lists[g][1] = "list"
            /\ Len(lists[g][2]) = Cardinality(rows)
            /\ \A r \in rows :
                  lists[g][2][Cardinality({q \in rows : q <= r})]
                      = Col(Input, MetaArg).vals[r]
      /\ last.args.order =>
            \A g, h \in 1..Height(Result) :
                g < h =>
                    Min(MatchRows(Input, GroupKeys, KeyAt(Result, GroupKeys, g)))
                      < Min(MatchRows(Input, GroupKeys, KeyAt(Result, GroupKeys, h)))

PriceRecord(d) == Struct(<< <<PRICE, Str(<<d, "0">>)>> >>)

\* the session of the example: id = [1, 1, 2], price = [10, 20, 30], packed
\* and then collapsed by id
C1_Witness ==
    /\ Succeeded("group_metadata")
    /\ last.variant = "class"
    /\ last.args.order
    /\ GroupKeys = <<ID>>
    /\ Col(Input, ID).vals = <<Str(<<"1">>), Str(<<"1">>), Str(<<"2">>)>>
    /\ Col(Result, ID).vals = <<Str(<<"1">>), Str(<<"2">>)>>
    /\ Col(Result, last.cm0).vals =
          << List(<<PriceRecord("1"), PriceRecord("2")>>), List(<<PriceRecord("3")>>) >>

\* C2: every column that is neither a group column nor the metadata column
\* is in the output of group_metadata, holding for each output row the value
\* of the first input row of the group.
C2_OtherColumnsKeepFirst ==
    Succeeded("group_metadata") =>
      \A i \in DOMAIN Input :
          (Input[i].name \notin Range(GroupKeys) /\ Input[i].name # MetaArg) =>
              /\ Has(Result, Input[i].name)
              /\ \A g \in 1..Height(Result) :
                    Col(Result, Input[i].name).vals[g] =
                        Input[i].vals[Min(MatchRows(Input, GroupKeys,
                                                    KeyAt(Result, GroupKeys, g)))]

\* the columns the last call names
NamedColumns ==
    CASE last.op = "create_metadata" -> Range(last.args.cols)
      [] last.op = "all_combinations_metadata" /\ last.variant = "class" ->
            Range(last.args.cols) \cup Range(last.args.on_col.names)
      [] last.op = "all_combinations_metadata" /\ last.variant = "function" ->
            {last.args.col} \cup Range(last.args.over_col.names)
      [] last.op = "group_metadata" /\ last.variant = "class" ->
            Range(GroupKeys) \cup (IF last.cm0 = None THEN {} ELSE {last.cm0})
      [] last.op = "group_metadata" /\ last.variant = "function" ->
            Range(GroupKeys) \cup {last.args.metadata}
      [] last.op = "rename_column_value" -> {last.args.col}
      [] OTHER -> {}

\* C3: a call that names a column absent from the dataframe raises
\* ColumnNotFoundError and leaves feed and current_metadata as they were.
C3_MissingColumnLeavesInput ==
    (\E n \in NamedColumns : ~Has(Input, n)) =>
        /\ last.status = "ColumnNotFoundError"
        /\ feed = last.feed0
        /\ current_metadata = last.cm0

\* C4: create_metadata or all_combinations_metadata succeeding on a session
\* that has a current metadata column warns, drops the previous metadata
\* column and leaves the new one in feed.
C4_NewMetadataReplacesOld ==
    ( /\ last.variant = "class"
      /\ last.op \in {"create_metadata", "all_combinations_metadata"}
      /\ last.status = "ok"
      /\ last.cm0 # None ) =>
        /\ last.warnings # <<>>
        /\ ~Has(feed, last.cm0)
        /\ Has(feed, last.args.meta_name)

\* C5: create_metadata returns a dataframe of the same height with a column
\* meta_name whose record in every row has the fields cols with that row's
\* values.
C5_PackedRecords ==
    Succeeded("create_metadata") =>
        /\ Height(Result) = Height(Input)
        /\ Has(Result, last.args.meta_name)
        /\ \A r \in 1..Height(Input) :
              Col(Result, last.args.meta_name).vals[r] =
                  Struct([k \in DOMAIN last.args.cols |->
                             <<last.args.cols[k], Col(Input, last.args.cols[k]).vals[r]>>])

\* C6: all_combinations_metadata of the class returns a dataframe of the same
\* height whose column meta_name holds, in each row, the list of the packed
\* records of the rows sharing that row's on_col values.  Stated for the rows
\* whose key is not null, where every release of the engine joins alike.
C6_GroupedLists ==
    (Succeeded("all_combinations_metadata") /\ last.variant = "class") =>
        /\ Height(Result) = Height(Input)
        /\ Has(Result, last.args.meta_name)
        /\ \A r \in 1..Height(Input) :
              LET keys == last.args.on_col.names
                  rows == MatchRows(Input, keys, KeyAt(Input, keys, r))
                  cell == Col(Result, last.args.meta_name).vals[r]
              IN  (\A k \in DOMAIN keys : KeyAt(Input, keys, r)[k] # Null) =>
                    /\ cell[1] = "list"
                    /\ Len(cell[2]) = Cardinality(rows)
                    /\ \A q \in rows :
                          cell[2][Cardinality({p \in rows : p <= q})] =
                              Struct([k \in DOMAIN last.args.cols |->
                                         <<last.args.cols[k],
                                           Col(Input, last.args.cols[k]).vals[q]>>])

\* C7: rename_column_value without regex rewrites the whole column: a cell
\* equal to old becomes new, every other cell (one equal to new, a null one)
\* becomes ow, which is old when none is passed; the other columns, the
\* order of the columns and the height stay.
C7_FullColumnRewrite ==
    (Succeeded("rename_column_value") /\ ~last.args.regex) =>
        LET fallback == IF last.args.ow = None THEN last.args.old ELSE last.args.ow IN
        /\ Len(Result) = Len(Input)
        /\ Height(Result) = Height(Input)
        /\ \A i \in DOMAIN Input :
              /\ Result[i].name = Input[i].name
              /\ Input[i].name # last.args.col => Result[i] = Input[i]
              /\ Input[i].name = last.args.col =>
                    \A r \in 1..Height(Input) :
                        Result[i].vals[r] =
                            IF Input[i].vals[r] = Str(last.args.old)
                            THEN Str(last.args.new)
                            ELSE Str(fallback)

\* no ow passed: the cell equal to old, the one equal to new and the null one
C7_Witness ==
    /\ Succeeded("rename_column_value")
    /\ ~last.args.regex
    /\ last.args.ow = None
    /\ last.args.col = ID
    /\ Col(Input, ID).vals = <<Str(OldValue), Str(NewValue), Null>>
    /\ Col(Result, ID).vals = <<Str(NewValue), Str(OldValue), Str(OldValue)>>

\* C8: format_cols is idempotent: once it has succeeded, a second
\* application succeeds and leaves names, order and cells as they are.
C8_FormatIdempotent ==
    Succeeded("format_cols") =>
        IF last.variant = "class"
        THEN FeedTransformation_format_cols(feed, current_metadata)
                 = {Done(feed, current_metadata, <<>>)}
        ELSE format_cols(last.ret) = {Ok(last.ret, <<>>)}

\* a call that stripped, lowercased and replaced a space
C8_Witness ==
    /\ Succeeded("format_cols")
    /\ Input[1].name = <<"A", " ", "a">>
    /\ Result[1].name = <<"a", "_", "a">>
    /\ Input[2].name = <<"A", " ">>
    /\ Result[2].name = <<"a">>

\* C9: rename_cols with a mapping whose keys are columns and whose result
\* has no name twice succeeds, and changes nothing but names: the number and
\* order of the columns and every cell stay, a column that is a key carries
\* the mapping's name and every other column keeps its own.
C9_RenameOnlyNames ==
    (last.op = "rename_cols" /\ last.args.rename_dict.isdict) =>
        LET items == last.args.rename_dict.items
            NewName(n) == IF \E p \in items : p[1] = n
                          THEN (CHOOSE p \in items : p[1] = n)[2]
                          ELSE n
            valid == /\ \A p \in items : Has(Input, p[1])
                     /\ \A i, j \in DOMAIN Input :
                           NewName(Input[i].name) = NewName(Input[j].name) => i = j
        IN  /\ valid <=> last.status = "ok"
            /\ last.status = "ok" =>
                  /\ Len(Result) = Len(Input)
                  /\ \A i \in DOMAIN Input :
                        /\ Result[i].vals = Input[i].vals
                        /\ \A p \in items : p[1] = Input[i].name => Result[i].name = p[2]
                        /\ (\A p \in items : p[1] # Input[i].name)
                              => Result[i].name = Input[i].name

\* two columns swapped by one mapping
C9_Witness ==
    /\ Succeeded("rename_cols")
    /\ Cardinality(last.args.rename_dict.items) = 2
    /\ Result[1].name = Input[2].name
    /\ Result[2].name = Input[1].name
    /\ Result[1].vals = Input[1].vals
    /\ Input[1].name # Input[2].name

\* C10: after a successful method current_metadata is None or the name of a
\* column of feed.
C10_CurrentMetadataInFeed ==
    (last.variant = "class" /\ last.status = "ok") =>
        (current_metadata = None \/ Has(feed, current_metadata))

====
